---- MODULE Spec2Model ----
(***************************************************************************)
(* Audiology (src/main.py): a background worker (AudioProcessor, a         *)
(* QThread) walks the selected files, reads their tags, samples and        *)
(* recognizes them, and notifies the GUI thread (MainWindow) through two   *)
(* queued signals; the GUI thread shows a modal comparison dialog per file *)
(* and, on acceptance, writes tags, embeds artwork and renames the file.   *)
(*                                                                         *)
(* Text is a sequence of one-character strings.  A tag store maps each of  *)
(* the four field names to the list of values the container holds for it   *)
(* (<<>> when the tag is absent), as mutagen does.  A Python dict is a     *)
(* function whose DOMAIN is its key set.                                   *)
(***************************************************************************)
EXTENDS Integers, Sequences, FiniteSets, TLC

\* Number of files the operator selects in the file dialog.
NumFiles == 2

FileIdx == 1..NumFiles

Fields == <<"artist", "title", "album", "date">>

FieldSet == {Fields[k] : k \in 1..Len(Fields)}

\* ---------------------------------------------------------------- text

\* The characters for which str.isalnum() is true, among those used here.
Alnum == {"A", "B", "T", "L", "D", "X", "O", "E", "u", "m", "1", "2", "3", "4"}

KeepChar(c) == c \in Alnum \/ c \in {" ", ".", "-", "_"}

\* The characters str.rstrip() strips, among those used here: space and tab.
Whitespace == {" ", "\t"}

RECURSIVE rstrip(_)
rstrip(s) ==
    IF s # <<>> /\ s[Len(s)] \in Whitespace THEN rstrip(SubSeq(s, 1, Len(s) - 1)) ELSE s

\* A variant that strips before it filters.
SanitizeStripFirst(s) == SelectSeq(rstrip(s), KeepChar)

\* "".join(c for c in new_filename if c.isalnum() or c in (' ','.','-','_')).rstrip()
Sanitize(s) == rstrip(SelectSeq(s, KeepChar))

\* os.path.splitext(file)[1]: from the last dot on, unless only dots precede it.
splitext_ext(name) ==
    LET dots == {k \in 1..Len(name) : name[k] = "."}
    IN  IF dots = {} THEN <<>>
        ELSE LET last == CHOOSE k \in dots : \A j \in dots : j <= k
             IN  IF \A j \in 1..(last - 1) : name[j] = "." THEN <<>>
                 ELSE SubSeq(name, last, Len(name))

\* f"{metadata['artist']} - {metadata['title']}{ext}", then sanitized.
NewFilename(metadata, file) ==
    Sanitize(metadata["artist"] \o <<" ", "-", " ">> \o metadata["title"]
             \o splitext_ext(file))

\* sep.join(values)
RECURSIVE Join(_, _)
Join(sep, vals) ==
    IF vals = <<>> THEN <<>>
    ELSE IF Len(vals) = 1 THEN vals[1]
    ELSE vals[1] \o sep \o Join(sep, Tail(vals))

\* dict.get(key, default)
Get(d, key, default) == IF key \in DOMAIN d THEN d[key] ELSE default

\* ---------------------------------------------------------------- files

DigitChar == <<"1", "2", "3", "4", "5", "6", "7", "8", "9">>

\* self.files: the paths handed over by the file dialog, all of one directory.
files == [i \in FileIdx |-> <<DigitChar[i], ".", "m">>]

IndexOf(path) == CHOOSE i \in FileIdx : files[i] = path

\* What mutagen.File detects from the file's structure ("none": it returns None).
Formats == {"mp3", "flac", "mp4", "wav", "other", "none"}

NoTags == [f \in FieldSet |-> <<>>]

\* The tags the selected files carry: an artist and an album, no title, no date.
OldTags == [f \in FieldSet |-> IF f \in {"artist", "album"} THEN << <<"O">> >> ELSE <<>>]

\* ---------------------------------------------------------------- worker: reading

\* The result of a call that may raise: Ret(v) or Raise(exception name).
Ret(v) == [raised |-> FALSE, val |-> v]

Raise(e) == [raised |-> TRUE, exc |-> e]

\* Stands for the NUL character with which str(frame) joins an ID3 frame's values.
NulSep == <<"~">>

\* str(['']): what str(audio.get('TPE1', [''])) yields when the frame is absent.
StrOfEmptyDefault == <<"[", "'", "'", "]">>

\* AudioProcessor.get_metadata(audio); audio.fmt = "none" is mutagen.File's None,
\* on which the final else branch calls audio.get and raises AttributeError.
get_metadata(audio) ==
    IF audio.fmt = "mp3" THEN
        Ret([f \in FieldSet |->
               IF audio.tags[f] = <<>> THEN StrOfEmptyDefault
               ELSE Join(NulSep, audio.tags[f])])
    ELSE IF audio.fmt \in {"flac", "mp4"} THEN
        Ret([f \in FieldSet |-> Join(<<",", " ">>, audio.tags[f])])
    ELSE IF audio.fmt = "none" THEN Raise("AttributeError")
    ELSE Ret([f \in FieldSet |-> Join(<<",", " ">>, audio.tags[f])])

\* ---------------------------------------------------------------- worker: recognition

\* result['result'] of a full match: every key, one provider image with a url.
ResultFull ==
    [artist |-> <<"A">>, title |-> <<"T">>, album |-> <<"L">>,
     release_date |-> <<"D">>, label |-> <<"X">>,
     spotify |-> [album |-> [images |-> << [url |-> <<"u">>] >>]]]

\* Only the three mandatory keys, all empty, and no provider block.
ResultBare == [artist |-> <<>>, title |-> <<>>, album |-> <<>>]

\* A provider block without an images array.
ResultNoImages ==
    [artist |-> <<>>, title |-> <<>>, album |-> <<>>,
     spotify |-> [album |-> [name |-> <<"L">>]]]

\* A provider block whose images array is empty.
ResultEmptyImages ==
    [artist |-> <<"A">>, title |-> <<"T">>, album |-> <<"L">>,
     release_date |-> <<"D">>, spotify |-> [album |-> [images |-> <<>>]]]

\* A provider image without a url.
ResultImageNoUrl ==
    [artist |-> <<>>, title |-> <<>>, album |-> <<>>,
     spotify |-> [album |-> [images |-> << [height |-> 1] >>]]]

\* A match that lacks the album key.
ResultNoAlbum == [artist |-> <<"A">>, title |-> <<"T">>]

HttpOk(json) == [transport |-> "ok", http_ok |-> TRUE, json |-> json]

\* The service responses tried: what requests.post does and the JSON body.
Responses ==
    << HttpOk([status |-> "success", result |-> ResultFull]),
       HttpOk([status |-> "success", result |-> ResultBare]),
       HttpOk([status |-> "success", result |-> ResultNoImages]),
       HttpOk([status |-> "success", result |-> ResultEmptyImages]),
       HttpOk([status |-> "success", result |-> ResultImageNoUrl]),
       HttpOk([status |-> "success", result |-> ResultNoAlbum]),
       HttpOk([status |-> "success", result |-> <<>>]),
       HttpOk([status |-> "error", error |-> [error_message |-> <<"n">>]]),
       [transport |-> "ok", http_ok |-> FALSE, json |-> <<>>],
       [transport |-> "error", http_ok |-> FALSE, json |-> <<>>] >>

\* new_metadata = None
NoneMetadata == [none |-> TRUE]

IsNone(m) == "none" \in DOMAIN m

\* ...get('spotify', {}).get('album', {}).get('images', [{}])[0].get('url', '')
ImageUrl(res) ==
    LET images == Get(Get(Get(res, "spotify", <<>>), "album", <<>>), "images", << <<>> >>)
    IN  IF Len(images) = 0 THEN Raise("IndexError")
        ELSE Ret(Get(images[1], "url", <<>>))

\* AudioProcessor.recognize_song, from the response on.  requests.post and
\* raise_for_status raise RequestException, which the except clause turns into None;
\* KeyError and IndexError are not caught.
recognize_song(resp) ==
    IF resp.transport # "ok" \/ ~resp.http_ok THEN Ret(NoneMetadata)
    ELSE LET result == resp.json
         IN  IF "status" \notin DOMAIN result THEN Raise("KeyError")
             ELSE IF result["status"] # "success" THEN Ret(NoneMetadata)
             ELSE IF "result" \notin DOMAIN result THEN Raise("KeyError")
             ELSE IF DOMAIN result["result"] = {} THEN Ret(NoneMetadata)
             ELSE LET res == result["result"]
                  IN  IF {"artist", "title", "album"} \ DOMAIN res # {}
                      THEN Raise("KeyError")
                      ELSE IF ImageUrl(res).raised THEN ImageUrl(res)
                      ELSE Ret([artist |-> res["artist"],
                                title |-> res["title"],
                                album |-> res["album"],
                                release_date |-> Get(res, "release_date", <<>>),
                                label |-> Get(res, "label", <<>>),
                                image |-> ImageUrl(res).val])

\* The length of the sample in milliseconds.
SampleMs == 10000

\* audio[a:b] of a segment of len(audio) = duration ms: both ends are clamped to
\* the segment.
Slice(duration, a, b) ==
    LET lo == IF a > duration THEN duration ELSE a
        hi == IF b > duration THEN duration ELSE b
    IN  [start |-> lo, length |-> IF hi > lo THEN hi - lo ELSE 0]

\* A variant that starts the sample at the middle of the track.
create_sample_at_middle(duration) ==
    LET start == IF duration > SampleMs THEN duration \div 2 ELSE 0
    IN  Slice(duration, start, start + SampleMs)

\* AudioProcessor.create_sample, lines 103-105: the window of the track exported.
create_sample(duration) ==
    LET start == IF duration > SampleMs THEN (duration - SampleMs) \div 2 ELSE 0
    IN  Slice(duration, start, start + SampleMs)

\* AudioProcessor.process_file on the directory dirv: mutagen.File, get_metadata,
\* create_sample (AudioSegment.from_file decodes or raises), recognize_song.
\* Raise carries the stage in which the exception left process_file.
process_file(dirv, file, readable, decodable, resp) ==
    IF file \notin DOMAIN dirv \/ ~readable THEN Raise("mutagen.File")
    ELSE LET old == get_metadata(dirv[file])
             new == recognize_song(resp)
         IN  IF old.raised THEN Raise("get_metadata")
             ELSE IF ~decodable THEN Raise("create_sample")
             ELSE IF new.raised THEN Raise("recognize_song")
             ELSE Ret([old |-> old.val, new |-> new.val])

\* A variant that computes the percentage from the zero-based index i.
ProgressValueZeroBased(k) == ((k - 1) * 100) \div NumFiles

\* int((i + 1) / len(self.files) * 100), i + 1 = k.  The float quotient, times 100
\* and truncated, is the integer quotient of 100 k by the length for the short
\* lists modelled here.
ProgressValue(k) == (k * 100) \div NumFiles

\* ---------------------------------------------------------------- state

VARIABLES
    dir,          \* the directory: file name -> [id, fmt, tags, art]
    wi,           \* worker: 1-based position of run's loop in self.files
    wpc,          \* worker: "process", "emit_meta", "emit_progress", "done", "dead"
    wres,         \* worker: (old_metadata, new_metadata) of the current file
    wfail,        \* worker: the call whose exception ended run ("" while alive)
    wrec,         \* per file of the list: what process_file came to
    emitted,      \* the signals emitted so far, in order: <<signal, file index>>
    progress_emitted, \* the values emitted on the progress signal so far, in order
    queue,        \* GUI thread: queued signal deliveries not yet handled
    dialogs,      \* GUI thread: the dialogs inside exec(), innermost last
    progress_bar, \* GUI thread: progress_bar.value()
    gpc,          \* GUI thread: position in apply_metadata ("idle" outside it)
    gfile,        \* apply_metadata: file
    gmeta,        \* apply_metadata: metadata
    gaudio,       \* apply_metadata: audio, the object mutagen.File returned
    gbefore,      \* the file's tags on disk when apply_metadata started
    gsaved,       \* the file's tags on disk when the tag-write step had saved
    gtyped,       \* the fields the operator typed into before accepting
    fstat,        \* per file of the list: what the GUI thread did for it
    duration,     \* create_sample on its own: len(audio) in ms
    sample,       \* create_sample on its own: the window taken, <<>> before the call
    new_filename, \* sanitization on its own: the text to sanitize
    sanitized     \* sanitization on its own: the results of successive passes

wvars == <<wi, wpc, wres, wfail, wrec, emitted, progress_emitted>>

gvars == <<gpc, gfile, gmeta, gaudio, gbefore, gsaved, gtyped>>

\* The state of the functions that are also run on their own.
fvars == <<duration, sample, new_filename, sanitized>>

vars == <<dir, wi, wpc, wres, wfail, wrec, emitted, progress_emitted, queue, dialogs, progress_bar,
          gpc, gfile, gmeta, gaudio, gbefore, gsaved, gtyped, fstat,
          duration, sample, new_filename, sanitized>>

NoStat == [review |-> "none", tagsave |-> "none", artwork |-> "none", rename |-> "none"]

NoAudio == [fmt |-> "none", tags |-> NoTags, art |-> FALSE]

\* The state when process_files starts the worker on files of format fm.
PipelineInit(fm) ==
    /\ dir = [n \in {files[i] : i \in FileIdx} |->
               [id |-> IndexOf(n), fmt |-> fm, tags |-> OldTags, art |-> FALSE]]
    /\ wi = 1
    /\ wpc = "process"
    /\ wres = <<>>
    /\ wfail = ""
    /\ wrec = [i \in FileIdx |-> "pending"]
    /\ emitted = <<>>
    /\ progress_emitted = <<>>
    /\ queue = <<>>
    /\ dialogs = <<>>
    /\ progress_bar = 0
    /\ gpc = "idle"
    /\ gfile = <<>>
    /\ gmeta = <<>>
    /\ gaudio = NoAudio
    /\ gbefore = NoTags
    /\ gsaved = NoTags
    /\ gtyped = {}
    /\ fstat = [i \in FileIdx |-> NoStat]

\* No function is being run on its own.
FunctionsIdle ==
    /\ duration = 0
    /\ sample = <<>>
    /\ new_filename = <<>>
    /\ sanitized = <<>>

\* The selected files exist, are of one container format and carry the same tags.
Init ==
    /\ \E fm \in Formats : PipelineInit(fm)
    /\ FunctionsIdle

\* ---------------------------------------------------------------- worker: run

\* run, line 56: old_metadata, new_metadata = self.process_file(file).  run has no
\* try: an exception ends the loop and the thread.
ProcessFile ==
    /\ wpc = "process"
    /\ \E readable \in BOOLEAN, decodable \in BOOLEAN, r \in 1..Len(Responses) :
          LET res == process_file(dir, files[wi], readable, decodable, Responses[r])
          IN  IF res.raised
              THEN /\ wpc' = "dead"
                   /\ wfail' = res.exc
                   /\ wres' = <<>>
                   /\ wrec' = [wrec EXCEPT ![wi] = "raised"]
              ELSE /\ wpc' = "emit_meta"
                   /\ wfail' = wfail
                   /\ wres' = res.val
                   /\ wrec' = [wrec EXCEPT ![wi] =
                                 IF IsNone(res.val.new) THEN "not_recognized"
                                 ELSE "recognized"]
    /\ UNCHANGED <<dir, wi, emitted, progress_emitted, queue, dialogs, progress_bar, fstat>>
    /\ UNCHANGED gvars
    /\ UNCHANGED fvars

MetadataReadyEvent(file, res) ==
    [type |-> "metadata_ready", file |-> file, old |-> res.old, new |-> res.new]

\* A variant of run that emits metadata_ready twice for a file.
EmitMetadataReadyTwice ==
    /\ wpc = "emit_meta"
    /\ wpc' = "emit_progress"
    /\ queue' = queue \o << MetadataReadyEvent(files[wi], wres),
                            MetadataReadyEvent(files[wi], wres) >>
    /\ emitted' = emitted \o << <<"metadata_ready", wi>>, <<"metadata_ready", wi>> >>
    /\ wres' = <<>>
    /\ UNCHANGED <<dir, wi, wfail, wrec, progress_emitted, dialogs, progress_bar, fstat>>
    /\ UNCHANGED gvars
    /\ UNCHANGED fvars

\* run, line 57: self.metadata_ready.emit(file, old_metadata, new_metadata), a queued
\* delivery to the GUI thread.  The signal is declared (str, dict, dict): for
\* new_metadata = None the binding either refuses the argument (TypeError, which
\* ends run) or delivers None.
EmitMetadataReady ==
    /\ wpc = "emit_meta"
    /\ \E accepted \in BOOLEAN :
          IF IsNone(wres.new) /\ ~accepted
          THEN /\ wpc' = "dead"
               /\ wfail' = "metadata_ready.emit"
               /\ UNCHANGED <<queue, emitted>>
          ELSE /\ wpc' = "emit_progress"
               /\ wfail' = wfail
               /\ queue' = Append(queue, MetadataReadyEvent(files[wi], wres))
               /\ emitted' = Append(emitted, <<"metadata_ready", wi>>)
    /\ wres' = <<>>
    /\ UNCHANGED <<dir, wi, wrec, progress_emitted, dialogs, progress_bar, fstat>>
    /\ UNCHANGED gvars
    /\ UNCHANGED fvars

\* run, line 58: self.progress.emit(...), then the loop's next iteration or its end.
EmitProgress ==
    /\ wpc = "emit_progress"
    /\ queue' = Append(queue, [type |-> "progress", value |-> ProgressValue(wi)])
    /\ emitted' = Append(emitted, <<"progress", wi>>)
    /\ progress_emitted' = Append(progress_emitted, ProgressValue(wi))
    /\ wi' = wi + 1
    /\ wpc' = IF wi = NumFiles THEN "done" ELSE "process"
    /\ UNCHANGED <<dir, wres, wfail, wrec, dialogs, progress_bar, fstat>>
    /\ UNCHANGED gvars
    /\ UNCHANGED fvars

\* ---------------------------------------------------------------- GUI thread: signals

SetStat(i, field, value) == [fstat EXCEPT ![i][field] = value]

\* MainWindow.update_progress, run by whichever event loop of the GUI thread is
\* current: the application's or a dialog's exec().
HandleProgress ==
    /\ gpc = "idle"
    /\ queue # <<>>
    /\ Head(queue).type = "progress"
    /\ progress_bar' = Head(queue).value
    /\ queue' = Tail(queue)
    /\ UNCHANGED <<dir, dialogs, fstat>>
    /\ UNCHANGED wvars
    /\ UNCHANGED gvars
    /\ UNCHANGED fvars

\* MetadataComparisonDialog.__init__: one QLineEdit per field, holding
\* new_metadata.get(field, '').
DialogEdits(new_metadata) == [f \in FieldSet |-> Get(new_metadata, f, <<>>)]

\* A variant whose constructor accepts None, as if it read (new_metadata or {}).
DialogNeverRaises(new_metadata) == FALSE

\* MetadataComparisonDialog.__init__ raises AttributeError at new_metadata.get
\* when new_metadata is None.
DialogRaises(new_metadata) == IsNone(new_metadata)

\* MainWindow.show_comparison_dialog up to dialog.exec(): the dialog is built and its
\* event loop entered, on top of the dialogs already executing.  With new_metadata =
\* None the constructor raises AttributeError and the slot ends.
OpenDialog ==
    /\ gpc = "idle"
    /\ queue # <<>>
    /\ Head(queue).type = "metadata_ready"
    /\ LET ev == Head(queue)
           i == IndexOf(ev.file)
       IN  IF DialogRaises(ev.new)
           THEN /\ fstat' = SetStat(i, "review", "crashed")
                /\ UNCHANGED dialogs
           ELSE /\ fstat' = SetStat(i, "review", "open")
                /\ dialogs' = Append(dialogs, [file |-> ev.file, new_metadata |-> ev.new,
                                               edits |-> DialogEdits(ev.new)])
    /\ queue' = Tail(queue)
    /\ UNCHANGED <<dir, progress_bar>>
    /\ UNCHANGED wvars
    /\ UNCHANGED gvars
    /\ UNCHANGED fvars

\* What the operator types into a field, and the sets of fields typed into.
TypedText == <<"E">>

TypedChoices == {{}, {"artist", "title"}}

\* A variant that builds a fresh record and blanks what the dialog has no field for.
get_edited_metadata_blanking_rest(new_metadata, edits) ==
    [k \in DOMAIN new_metadata \cup FieldSet |->
       IF k \in FieldSet THEN edits[k] ELSE <<>>]

\* MetadataComparisonDialog.get_edited_metadata
get_edited_metadata(new_metadata, edits) ==
    [k \in DOMAIN new_metadata \cup FieldSet |->
       IF k \in FieldSet THEN edits[k] ELSE new_metadata[k]]

TopDialog == dialogs[Len(dialogs)]

\* A variant that ignores the result of dialog.exec() and applies the metadata of
\* a cancelled dialog.
CancelDialogStillApplies ==
    /\ gpc = "idle"
    /\ dialogs # <<>>
    /\ gmeta' = get_edited_metadata(TopDialog.new_metadata, TopDialog.edits)
    /\ gtyped' = {}
    /\ gfile' = TopDialog.file
    /\ gpc' = "tagwrite"
    /\ gbefore' = NoTags
    /\ dialogs' = SubSeq(dialogs, 1, Len(dialogs) - 1)
    /\ fstat' = SetStat(IndexOf(TopDialog.file), "review", "cancelled")
    /\ UNCHANGED <<dir, queue, progress_bar, gaudio, gsaved>>
    /\ UNCHANGED wvars
    /\ UNCHANGED fvars

\* The operator presses Cancel in the innermost dialog: dialog.exec() returns 0 and
\* show_comparison_dialog returns.
CancelDialog ==
    /\ gpc = "idle"
    /\ dialogs # <<>>
    /\ dialogs' = SubSeq(dialogs, 1, Len(dialogs) - 1)
    /\ fstat' = SetStat(IndexOf(TopDialog.file), "review", "cancelled")
    /\ UNCHANGED <<dir, queue, progress_bar>>
    /\ UNCHANGED wvars
    /\ UNCHANGED gvars
    /\ UNCHANGED fvars

\* The operator, having typed into some fields, presses OK in the innermost dialog:
\* dialog.exec() returns 1, get_edited_metadata runs and apply_metadata is entered.
AcceptDialog ==
    /\ gpc = "idle"
    /\ dialogs # <<>>
    /\ \E typed \in TypedChoices :
          LET edits == [f \in FieldSet |->
                          IF f \in typed THEN TypedText ELSE TopDialog.edits[f]]
          IN  /\ gmeta' = get_edited_metadata(TopDialog.new_metadata, edits)
              /\ gtyped' = typed
    /\ gfile' = TopDialog.file
    /\ gpc' = "tagwrite"
    /\ gbefore' = IF TopDialog.file \in DOMAIN dir THEN dir[TopDialog.file].tags ELSE NoTags
    /\ dialogs' = SubSeq(dialogs, 1, Len(dialogs) - 1)
    /\ fstat' = SetStat(IndexOf(TopDialog.file), "review", "accepted")
    /\ UNCHANGED <<dir, queue, progress_bar, gaudio, gsaved>>
    /\ UNCHANGED wvars
    /\ UNCHANGED fvars

\* ---------------------------------------------------------------- GUI thread: apply_metadata

\* apply_metadata is left, by return or by an exception: its locals are gone.
LeaveApply ==
    /\ gpc' = "idle"
    /\ gfile' = <<>>
    /\ gmeta' = <<>>
    /\ gaudio' = NoAudio
    /\ gbefore' = NoTags
    /\ gsaved' = NoTags
    /\ gtyped' = {}

\* audio = mutagen.File(file): the object holding the tags and pictures as loaded.
mutagen_File(f) == [fmt |-> f.fmt, tags |-> f.tags, art |-> f.art]

\* "if key in metadata: <tag> = metadata[key]" for the keys in keys.
SetFields(tags, metadata, keys) ==
    [f \in FieldSet |->
       IF f \in keys /\ f \in DOMAIN metadata THEN <<metadata[f]>> ELSE tags[f]]

\* The keys a container of the generic branch accepts; for the others
\* audio[key] = ... raises KeyError, which is caught.
GenericSupported == {FieldSet, {"artist", "title"}}

\* The tag-write branches of apply_metadata (lines 215-249) up to the save:
\* disk is what the save puts on disk, audio the object `audio` afterwards.
\*  - WAV: a new tag container with artist and title, attached to audio
\*  - MP3: written through a second object, tags = ID3(file); audio keeps the
\*    tags it loaded
\*  - FLAC, MP4, generic: written through audio
apply_tags(audio, ondisk, metadata, supported) ==
    IF audio.fmt = "wav" THEN
        LET t == SetFields(NoTags, metadata, {"artist", "title"})
        IN  [disk |-> t, audio |-> [audio EXCEPT !.tags = t]]
    ELSE IF audio.fmt = "mp3" THEN
        [disk |-> SetFields(ondisk, metadata, FieldSet), audio |-> audio]
    ELSE IF audio.fmt \in {"flac", "mp4"} THEN
        LET t == SetFields(audio.tags, metadata, FieldSet)
        IN  [disk |-> t, audio |-> [audio EXCEPT !.tags = t]]
    ELSE
        LET t == SetFields(audio.tags, metadata, supported)
        IN  [disk |-> t, audio |-> [audio EXCEPT !.tags = t]]

\* audio.tags = WAVE.tags(audio), line 219: what the library call does.  WAVE.tags
\* is the class attribute, not a constructor: where it is None the call raises
\* TypeError, which nothing in apply_metadata catches; otherwise it yields the
\* new container.
WaveTagsOutcomes == {"TypeError", "container"}

\* A variant that carries on after a failed save, as if the exception were swallowed.
AfterTagSaveIgnoringFailure(saved) == "artwork"

\* Where apply_metadata goes after the tag-write branch: on, or out by the
\* exception of a failed load or save, which nothing in apply_metadata catches.
AfterTagSave(saved) == IF saved THEN "artwork" ELSE "idle"

\* apply_metadata, lines 214-252: load, tag-write branch, save.
TagWrite ==
    /\ gpc = "tagwrite"
    /\ LET i == IndexOf(gfile)
       IN  IF gfile \notin DOMAIN dir
           THEN /\ fstat' = SetStat(i, "tagsave", "failed")
                /\ LeaveApply
                /\ UNCHANGED dir
           ELSE IF dir[gfile].fmt = "none"
           THEN /\ fstat' = SetStat(i, "tagsave", "unsupported")
                /\ LeaveApply
                /\ UNCHANGED dir
           ELSE \E saved \in BOOLEAN, supported \in GenericSupported,
                   wave_tags \in WaveTagsOutcomes :
                  IF dir[gfile].fmt = "wav" /\ wave_tags = "TypeError"
                  THEN /\ fstat' = SetStat(i, "tagsave", "typeerror")
                       /\ LeaveApply
                       /\ UNCHANGED dir
                  ELSE
                  LET w == apply_tags(mutagen_File(dir[gfile]), dir[gfile].tags,
                                      gmeta, supported)
                  IN  /\ fstat' = SetStat(i, "tagsave", IF saved THEN "ok" ELSE "failed")
                      /\ dir' = IF saved THEN [dir EXCEPT ![gfile].tags = w.disk] ELSE dir
                      /\ IF AfterTagSave(saved) = "idle"
                         THEN LeaveApply
                         ELSE /\ gpc' = AfterTagSave(saved)
                              /\ gaudio' = w.audio
                              /\ gsaved' = w.disk
                              /\ UNCHANGED <<gfile, gmeta, gbefore, gtyped>>
    /\ UNCHANGED <<queue, dialogs, progress_bar>>
    /\ UNCHANGED wvars
    /\ UNCHANGED fvars

\* AudioProcessor.download_artwork: None for an empty url or a failed request, else
\* the response body, which may be empty.
Downloads == {"failed", "empty", "bytes"}

download_artwork(image_url, outcome) ==
    IF image_url = <<>> \/ outcome = "failed" THEN "None" ELSE outcome

\* AudioProcessor.embed_artwork: a picture for MP3, FLAC and MP4, a message otherwise.
embed_artwork(audio) ==
    IF audio.fmt \in {"mp3", "flac", "mp4"} THEN [audio EXCEPT !.art = TRUE] ELSE audio

\* apply_metadata, lines 254-259: download, embed_artwork and the second
\* audio.save(), which writes the tags and pictures audio holds.
Artwork ==
    /\ gpc = "artwork"
    /\ LET i == IndexOf(gfile)
       IN  IF "image" \in DOMAIN gmeta /\ gmeta["image"] # <<>>
           THEN \E outcome \in Downloads, saved \in BOOLEAN :
                  IF download_artwork(gmeta["image"], outcome) = "bytes"
                  THEN LET a == embed_artwork(gaudio)
                       IN  IF saved
                           THEN /\ dir' = [dir EXCEPT ![gfile].tags = a.tags,
                                                      ![gfile].art = a.art]
                                /\ fstat' = SetStat(i, "artwork",
                                       IF a.art THEN "embedded" ELSE "unsupported")
                                /\ gpc' = "rename"
                                /\ gaudio' = a
                                /\ UNCHANGED <<gfile, gmeta, gbefore, gsaved, gtyped>>
                           ELSE /\ fstat' = SetStat(i, "artwork", "savefailed")
                                /\ LeaveApply
                                /\ UNCHANGED dir
                  ELSE /\ fstat' = SetStat(i, "artwork", "skipped")
                       /\ gpc' = "rename"
                       /\ UNCHANGED <<dir, gfile, gmeta, gaudio, gbefore, gsaved, gtyped>>
           ELSE /\ fstat' = SetStat(i, "artwork", "skipped")
                /\ gpc' = "rename"
                /\ UNCHANGED <<dir, gfile, gmeta, gaudio, gbefore, gsaved, gtyped>>
    /\ UNCHANGED <<queue, dialogs, progress_bar>>
    /\ UNCHANGED wvars
    /\ UNCHANGED fvars

\* The directory after the file src has taken the name dst.
Moved(dirv, src, dst) ==
    [n \in (DOMAIN dirv \ {src}) \cup {dst} |-> IF n = dst THEN dirv[src] ELSE dirv[n]]

\* A variant in which a rename that is refused has already moved the file.
os_rename_moving_before_raising(dirv, src, dst, platform, permitted) ==
    IF src \notin DOMAIN dirv \/ dst = <<>> THEN [raised |-> TRUE, dir |-> dirv]
    ELSE IF ~permitted THEN [raised |-> TRUE, dir |-> Moved(dirv, src, dst)]
    ELSE IF dst = src THEN [raised |-> FALSE, dir |-> dirv]
    ELSE IF dst \in DOMAIN dirv /\ platform = "windows" THEN [raised |-> TRUE, dir |-> dirv]
    ELSE [raised |-> FALSE, dir |-> Moved(dirv, src, dst)]

\* os.rename(file, new_path) within one directory.  An existing target is replaced
\* on POSIX and is FileExistsError, an OSError, on Windows.
os_rename(dirv, src, dst, platform, permitted) ==
    IF src \notin DOMAIN dirv \/ dst = <<>> \/ ~permitted THEN [raised |-> TRUE, dir |-> dirv]
    ELSE IF dst = src THEN [raised |-> FALSE, dir |-> dirv]
    ELSE IF dst \in DOMAIN dirv /\ platform = "windows" THEN [raised |-> TRUE, dir |-> dirv]
    ELSE [raised |-> FALSE, dir |-> Moved(dirv, src, dst)]

Platforms == {"posix", "windows"}

\* apply_metadata, lines 261-268: the new name and os.rename; OSError is caught.
Rename ==
    /\ gpc = "rename"
    /\ \E platform \in Platforms, permitted \in BOOLEAN :
          LET r == os_rename(dir, gfile, NewFilename(gmeta, gfile), platform, permitted)
          IN  /\ dir' = r.dir
              /\ fstat' = SetStat(IndexOf(gfile), "rename",
                                  IF r.raised THEN "oserror" ELSE "ok")
    /\ LeaveApply
    /\ UNCHANGED <<queue, dialogs, progress_bar>>
    /\ UNCHANGED wvars
    /\ UNCHANGED fvars

\* ---------------------------------------------------------------- specification

Next ==
    \/ ProcessFile
    \/ EmitMetadataReady
    \/ EmitProgress
    \/ HandleProgress
    \/ OpenDialog
    \/ CancelDialog
    \/ AcceptDialog
    \/ TagWrite
    \/ Artwork
    \/ Rename

Spec == Init /\ [][Next]_vars

\* ---------------------------------------------------------------- create_sample on its own

\* The longest track tried, in milliseconds.
MaxDuration == 20000

\* A track of any duration up to MaxDuration is about to be sampled.
InitSample ==
    /\ PipelineInit("mp3")
    /\ duration \in 0..MaxDuration
    /\ sample = <<>>
    /\ new_filename = <<>>
    /\ sanitized = <<>>

\* create_sample, lines 103-105, on the decoded track.
CreateSample ==
    /\ Len(sample) = 0
    /\ sample' = <<create_sample(duration)>>
    /\ UNCHANGED <<duration, new_filename, sanitized, dir, queue, dialogs, progress_bar, fstat>>
    /\ UNCHANGED wvars
    /\ UNCHANGED gvars

NextSample == CreateSample

SpecSample == InitSample /\ [][NextSample]_vars

\* ---------------------------------------------------------------- sanitization on its own

\* The longest text sanitized, in characters.
MaxLen == 3

\* Letters, digits, the four characters kept besides them, and two that are not
\* kept: a slash and a tab.
SanitizeChars == {"A", "1", " ", ".", "-", "_", "/", "\t"}

Texts == UNION {[1..n -> SanitizeChars] : n \in 0..MaxLen}

\* Any text up to MaxLen characters is about to be sanitized.
InitSanitize ==
    /\ PipelineInit("mp3")
    /\ duration = 0
    /\ sample = <<>>
    /\ new_filename \in Texts
    /\ sanitized = <<>>

\* The sanitization of line 264, applied to the text and then to its own result.
SanitizePass ==
    /\ Len(sanitized) < 2
    /\ sanitized' = Append(sanitized,
                           Sanitize(IF Len(sanitized) = 0 THEN new_filename
                                    ELSE sanitized[Len(sanitized)]))
    /\ UNCHANGED <<duration, sample, new_filename, dir, queue, dialogs, progress_bar, fstat>>
    /\ UNCHANGED wvars
    /\ UNCHANGED gvars

NextSanitize == SanitizePass

SpecSanitize == InitSanitize /\ [][NextSanitize]_vars

\* ---------------------------------------------------------------- properties

Range(s) == {s[k] : k \in 1..Len(s)}

\* The text is empty once trimmed.
IsBlank(s) == \A k \in 1..Len(s) : s[k] = " "

\* The GUI thread is inside apply_metadata for file i of the list.
Applying(i) == gpc # "idle" /\ gfile = files[i]

\* File i of the list is on disk under its original name, as it was selected.
Pristine(i) ==
    /\ files[i] \in DOMAIN dir
    /\ dir[files[i]].id = i
    /\ dir[files[i]].tags = OldTags
    /\ ~dir[files[i]].art

NothingWritten(i) ==
    /\ fstat[i].tagsave = "none"
    /\ fstat[i].artwork = "none"
    /\ fstat[i].rename = "none"
    /\ ~Applying(i)

\* C1: apply_metadata attempts the rename of a file only after the tag save of that
\* file has completed; when the tag write failed or the file type is unsupported, no
\* rename is attempted and the file is still there under its original name.
C1_RenameOnlyAfterTagSave ==
    /\ gpc \in {"artwork", "rename"} => fstat[IndexOf(gfile)].tagsave = "ok"
    /\ \A i \in FileIdx :
         /\ fstat[i].rename # "none" => fstat[i].tagsave = "ok"
         /\ fstat[i].tagsave \in {"failed", "unsupported", "typeerror"} =>
               /\ fstat[i].rename = "none"
               /\ files[i] \in DOMAIN dir
               /\ dir[files[i]].id = i

\* One file's save failed and apply_metadata has returned, another was renamed.
C1_Witness ==
    /\ gpc = "idle"
    /\ \E i, j \in FileIdx : fstat[i].tagsave = "failed" /\ fstat[j].rename = "ok"

\* C2: once the artwork step of apply_metadata has run (download, embed_artwork,
\* second save), the file's tags on disk are still the ones the tag-write step
\* saved, for every format.
C2_ArtworkKeepsWrittenTags ==
    gpc = "rename" => dir[gfile].tags = gsaved

\* C3: a file whose dialog the operator cancelled is untouched: no tag write, no
\* artwork step and no rename for it, and on disk it has the name, the tags and
\* the pictures it was selected with.
C3_CancelLeavesFileUntouched ==
    \A i \in FileIdx :
        fstat[i].review = "cancelled" => NothingWritten(i) /\ Pristine(i)

\* One file was cancelled while another was accepted, written and renamed.
C3_Witness ==
    \E i, j \in FileIdx :
        /\ fstat[i].review = "cancelled"
        /\ fstat[j].tagsave = "ok"
        /\ fstat[j].rename = "ok"

\* C4: whatever fails for one file, run goes on: when run has ended, every file of
\* the list has had its progress event.
C4_FailureDoesNotAbortBatch ==
    wpc \in {"done", "dead"} =>
        \A i \in FileIdx : <<"progress", i>> \in Range(emitted)

\* File i was announced to the GUI thread and its dialog is not yet resolved.
AwaitingReview(i) ==
    /\ <<"metadata_ready", i>> \in Range(emitted)
    /\ fstat[i].review \in {"none", "open"}

\* run has called process_file for file j of the list.
WorkerStarted(j) == wi > j \/ (wi = j /\ wpc # "process")

\* C5: while file i awaits the operator's review, the worker has not started a
\* later file, and no later file has had a tag write or a rename.
C5_FilesHandledSequentially ==
    \A i, j \in FileIdx :
        (AwaitingReview(i) /\ j > i) =>
            /\ ~WorkerStarted(j)
            /\ fstat[j].tagsave = "none"
            /\ fstat[j].rename = "none"

\* The dialog of a later file, opened inside the event loop of an earlier file's
\* dialog, was accepted and written while the earlier one is still open.
C5_NestedDialogWritesFirst ==
    \E i, j \in FileIdx :
        /\ j > i
        /\ fstat[i].review = "open"
        /\ fstat[j].tagsave = "ok"
        /\ fstat[j].rename = "ok"

\* C6: no file is lost by a rename: every file selected is still in the directory,
\* under some name, with its own content.
C6_NoFileLostByRename ==
    \A i \in FileIdx : \E n \in DOMAIN dir : dir[n].id = i

\* What recognition reported for a field; the date is reported as release_date.
Recognized(metadata, f) ==
    IF f = "date" THEN Get(metadata, "release_date", <<>>) ELSE metadata[f]

\* C7: in the comparison flow, a field that recognition reported empty and the
\* operator did not type into has, after the tag write, the value it had on disk
\* before.
C7_EmptyRecognizedFieldKeepsOldValue ==
    gpc = "artwork" =>
        \A f \in FieldSet :
            (f \notin gtyped /\ IsBlank(Recognized(gmeta, f))) =>
                dir[gfile].tags[f] = gbefore[f]

\* C8: no exception leaves recognize_song, whatever the service responds.
C8_RecognizeNeverThrows == wfail # "recognize_song"

\* C9: a file that recognize_song did not recognize (it returned None) gets no tag
\* write, no artwork step and no rename, and stays as it was selected.
C9_NotRecognizedNoWrites ==
    \A i \in FileIdx :
        wrec[i] = "not_recognized" =>
            /\ NothingWritten(i)
            /\ Pristine(i)
            /\ fstat[i].review \in {"none", "crashed"}

\* The notification of an unrecognized file was handled by the GUI thread, and
\* another file was written and renamed.
C9_Witness ==
    \E i, j \in FileIdx :
        /\ wrec[i] = "not_recognized"
        /\ fstat[i].review = "crashed"
        /\ fstat[j].rename = "ok"

\* The GUI thread is done with file i: its review is resolved and apply_metadata,
\* if entered, has been left.
FileComplete(i) ==
    /\ fstat[i].review \in {"accepted", "cancelled", "crashed"}
    /\ ~Applying(i)

\* C10: the progress value of a file is emitted only once that file is complete:
\* reviewed, and written and renamed or skipped.
C10_ProgressCountsCompletedFiles ==
    \A i \in FileIdx : <<"progress", i>> \in Range(emitted) => FileComplete(i)

\* C11: every value emitted on the progress signal is an integer in 0..100, no
\* value is smaller than the one emitted before it, and the value emitted for the
\* last file of the list is 100.
C11_ProgressMonotoneTo100 ==
    /\ \A k \in 1..Len(progress_emitted) : progress_emitted[k] \in 0..100
    /\ \A k \in 1..(Len(progress_emitted) - 1) :
          progress_emitted[k] <= progress_emitted[k + 1]
    /\ Len(progress_emitted) = NumFiles => progress_emitted[NumFiles] = 100

\* run has emitted the progress of every file of the list.
C11_Witness == wpc = "done" /\ Len(progress_emitted) = NumFiles

\* C12: for a track of D ms, the window create_sample takes starts at
\* (D - 10000) / 2 and is 10000 ms long, inside the track, when D >= 10000, and
\* is the whole track, from 0, when D < 10000.
C12_SampleWindow ==
    Len(sample) = 1 =>
        LET w == sample[1]
        IN  IF duration >= 10000
            THEN /\ w.start = (duration - 10000) \div 2
                 /\ w.length = 10000
                 /\ w.start >= 0
                 /\ w.start + w.length <= duration
            ELSE /\ w.start = 0
                 /\ w.length = duration

\* A track of exactly 10000 ms, which the code handles in its else branch, and
\* longer ones have been sampled.
C12_Witness == Len(sample) = 1 /\ duration = 10000

\* C13: sanitizing an already sanitized text yields the same text.
C13_SanitizeIdempotent ==
    Len(sanitized) = 2 => sanitized[2] = sanitized[1]

\* A text that sanitization changed, without emptying it, was sanitized twice.
C13_Witness ==
    /\ Len(sanitized) = 2
    /\ sanitized[1] # new_filename
    /\ sanitized[1] # <<>>

\* C14: the date shown in the comparison dialog is the release_date that
\* recognition reported, and when the operator accepts without typing a date, the
\* file's date tag after the tag write is that release_date.
C14_DateIsReleaseDate ==
    /\ \A k \in 1..Len(dialogs) :
          dialogs[k].edits["date"] = Get(dialogs[k].new_metadata, "release_date", <<>>)
    /\ (gpc = "artwork" /\ "date" \notin gtyped /\ gaudio.fmt \in {"mp3", "flac", "mp4"}) =>
          dir[gfile].tags["date"] = << Get(gmeta, "release_date", <<>>) >>

\* C15: once apply_metadata has written the record m to a file, get_metadata on
\* that file yields m's artist, title, album and date, and for a WAV or generic
\* file also m's label.
C15_WriteThenReadRoundTrip ==
    gpc = "rename" =>
        LET back == get_metadata(dir[gfile]).val
        IN  /\ \A f \in FieldSet : back[f] = gmeta[f]
            /\ dir[gfile].fmt \in {"wav", "other"} =>
                  /\ "label" \in DOMAIN back
                  /\ back["label"] = gmeta["label"]

\* The GUI thread is applying, to a WAV file, metadata with a non-empty artwork URL.
WavWithArtworkUrl ==
    /\ gpc # "idle"
    /\ gfile \in DOMAIN dir
    /\ dir[gfile].fmt = "wav"
    /\ "image" \in DOMAIN gmeta
    /\ gmeta["image"] # <<>>

\* C16: for a WAV file whose accepted metadata has a non-empty artwork URL, unless
\* a save fails on I/O, the tag-write step writes the artist and title and goes
\* on, the artwork step reports embedding as unsupported (or has nothing to embed)
\* and goes on, and the rename is attempted.
\* (While apply_metadata runs, its steps are the only ones that change fstat.)
C16_WavArtworkUnsupportedNotFatal ==
    [][(WavWithArtworkUrl /\ fstat' # fstat) =>
         LET st == fstat'[IndexOf(gfile)]
         IN  /\ (gpc = "tagwrite" /\ st.tagsave # "failed") =>
                   /\ gpc' = "artwork"
                   /\ dir'[gfile].tags["artist"] = <<gmeta["artist"]>>
                   /\ dir'[gfile].tags["title"] = <<gmeta["title"]>>
             /\ (gpc = "artwork" /\ st.artwork # "savefailed") =>
                   /\ gpc' = "rename"
                   /\ st.artwork \in {"unsupported", "skipped"}
                   /\ dir'[gfile].tags = dir[gfile].tags
             /\ gpc = "rename" => st.rename # "none"]_vars

\* C17: whatever the operator types, the record get_edited_metadata returns when
\* the dialog is accepted has every key of the recognized record, and every key
\* other than artist, title, album and date (the label, the artwork URL, ...)
\* with the recognized value.
C17_OnlyFourFieldsEditable ==
    [][(gpc = "idle" /\ gpc' = "tagwrite") =>
         LET rec == TopDialog.new_metadata
         IN  /\ DOMAIN rec \subseteq DOMAIN gmeta'
             /\ \A k \in DOMAIN rec \ FieldSet : gmeta'[k] = rec[k]]_vars

\* A dialog was accepted after the operator typed into it, and the record handed
\* to apply_metadata has the typed artist and the recognized label and artwork URL.
C17_Witness ==
    /\ gpc = "tagwrite"
    /\ gtyped # {}
    /\ gmeta["artist"] = TypedText
    /\ gmeta["label"] = <<"X">>
    /\ gmeta["image"] = <<"u">>

Stem(name) == SubSeq(name, 1, Len(name) - Len(splitext_ext(name)))

\* C19: no file ever gets a name whose stem has no artist or title character:
\* when the sanitized target has such a stem the rename is skipped.
C19_NoRenameToEmptyStem ==
    \A n \in DOMAIN dir : \E k \in 1..Len(Stem(n)) : Stem(n)[k] \in Alnum

\* C20: the worker's notifications come in file-list order: what run has emitted
\* is always a beginning of metadata_ready(1), progress(1), metadata_ready(2),
\* progress(2), ..., so each file has at most one metadata_ready, before its
\* progress, and nothing is emitted for a file before both of the file before it.
C20_NotificationsInListOrder ==
    \A k \in 1..Len(emitted) :
        emitted[k] = << IF k % 2 = 1 THEN "metadata_ready" ELSE "progress",
                        (k + 1) \div 2 >>

\* run has gone through the whole list and emitted both notifications of every file.
C20_Witness == wpc = "done" /\ Len(emitted) = 2 * NumFiles

====
